---- MODULE Spec2Model ----
(***************************************************************************)
(* WebsocketSecureTransport of engineio/src/asynchronous/async_transports/ *)
(* websocket_secure.rs: the URL rewriting done by `new` and `set_base_url`, *)
(* the RwLock<Url> cell read by `base_url`, and the calls forwarded to the *)
(* inner AsyncWebsocketGeneralTransport.                                   *)
(*                                                                         *)
(* A Url is a record [scheme, host, port, path, query, fragment]; `query`  *)
(* is the tail of the serialization from the '?' up to the fragment, as a  *)
(* sequence of tokens:                                                     *)
(* <<>> when the URL has no query, <<"?">> for an empty query, and e.g.    *)
(* <<"?", "foo", "=", "bar", "&", "transport", "=", "websocket">>.         *)
(* query_pairs_mut takes the fragment off and puts it back untouched.      *)
(***************************************************************************)
EXTENDS Integers, Sequences, FiniteSets, TLC

\* ------------------------------------------------------------------ bounds
\* Largest number of '&'-separated segments in the query of an input URL.
MaxPairs == 2

\* ------------------------------------------------------------- Url values
None == "none"

Host == "example.com"

\* url::parser::SchemeType::is_special
Special(scheme) == scheme \in {"http", "https", "ws", "wss", "ftp", "file"}

\* url::parser::default_port
DefaultPort(scheme) ==
    CASE scheme \in {"http", "ws"} -> 80
      [] scheme \in {"https", "wss"} -> 443
      [] scheme = "ftp" -> 21
      [] OTHER -> 0

\* percent_decode of one token of a query string
Decode(tok) == IF tok = "transp%6Frt" THEN "transport" ELSE tok

\* The segments of a token string, split at every "&".
RECURSIVE SplitAmp(_)
SplitAmp(s) ==
    IF s = <<>> THEN << <<>> >>
    ELSE LET rest == SplitAmp(Tail(s))
         IN  IF Head(s) = "&" THEN << <<>> >> \o rest
             ELSE << <<Head(s)>> \o Head(rest) >> \o Tail(rest)

\* Index of the first "=" of a segment, 0 when it has none.
RECURSIVE FirstEq(_, _)
FirstEq(seg, i) ==
    IF i > Len(seg) THEN 0
    ELSE IF seg[i] = "=" THEN i ELSE FirstEq(seg, i + 1)

DecodeAll(s) == [i \in 1..Len(s) |-> Decode(s[i])]

\* form_urlencoded::parse on one non-empty segment: name before the first
\* "=", value after it, both percent-decoded.
ParsePair(seg) ==
    LET e == FirstEq(seg, 1)
    IN  IF e = 0 THEN <<DecodeAll(seg), <<>> >>
        ELSE <<DecodeAll(SubSeq(seg, 1, e - 1)),
               DecodeAll(SubSeq(seg, e + 1, Len(seg)))>>

\* Url::query_pairs: the decoded (name, value) pairs of the query, in
\* order; empty segments are skipped.
RECURSIVE ParseSegs(_)
ParseSegs(segs) ==
    IF segs = <<>> THEN <<>>
    ELSE IF Head(segs) = <<>> THEN ParseSegs(Tail(segs))
    ELSE <<ParsePair(Head(segs))>> \o ParseSegs(Tail(segs))

query_pairs(u) ==
    IF u.query = <<>> THEN <<>> ELSE ParseSegs(SplitAmp(Tail(u.query)))

\* The closure of line 85: k == "transport" && v == "websocket".
IsMarker(kv) == kv[1] = <<"transport">> /\ kv[2] = <<"websocket">>

\* HasMarker looking at the first pair only.
HasMarkerFirstOnly(u) ==
    query_pairs(u) # <<>> /\ IsMarker(query_pairs(u)[1])

\* query_pairs().any(|(k, v)| k == "transport" && v == "websocket")
HasMarker(u) == \E i \in 1..Len(query_pairs(u)) : IsMarker(query_pairs(u)[i])

\* append_pair putting the pair in front of the query.
prepend_pair(u) ==
    LET q0 == IF u.query = <<>> THEN <<>> ELSE Tail(u.query)
        q1 == IF q0 = <<>> THEN q0 ELSE <<"&">> \o q0
    IN  [u EXCEPT !.query = <<"?", "transport", "=", "websocket">> \o q1]

\* url.query_pairs_mut().append_pair("transport", "websocket"): a "?" is
\* pushed when the URL has no query, a "&" when the query is not empty,
\* and then name=value.
append_pair(u) ==
    LET q0 == IF u.query = <<>> THEN <<"?">> ELSE u.query
        q1 == IF Len(q0) > 1 THEN Append(q0, "&") ELSE q0
    IN  [u EXCEPT !.query = q1 \o <<"transport", "=", "websocket">>]

\* url.set_scheme("wss"): refused (Err) when the old scheme is not special
\* or the URL has no host; otherwise the scheme is replaced and a port that
\* is the new scheme's default is dropped.
set_scheme_ok(u) == Special(u.scheme) /\ u.host # None

set_scheme(u) ==
    [u EXCEPT !.scheme = "wss",
              !.port = IF u.port = DefaultPort("wss") THEN 0 ELSE u.port]

\* ------------------------------------------------------------- input URLs
\* The segments an input query is built from.
Segs ==
    { <<"transport", "=", "websocket">>,
      <<"transp%6Frt", "=", "websocket">>,
      <<"transport", "=", "polling">>,
      <<"foo", "=", "bar">> }

RECURSIVE Join(_)
Join(segs) ==
    IF segs = <<>> THEN <<>>
    ELSE IF Len(segs) = 1 THEN Head(segs)
    ELSE Head(segs) \o <<"&">> \o Join(Tail(segs))

Queries ==
    { <<>> } \cup
    { <<"?">> \o Join(segs) :
        segs \in UNION { [1..n -> Segs] : n \in 0..MaxPairs } }

Url(scheme, host, port, path, query) ==
    [scheme |-> scheme, host |-> host, port |-> port, path |-> path,
     query |-> query, fragment |-> None]

WithFragment(u, f) == [u EXCEPT !.fragment = f]

\* Scheme, host and port of the input URLs: the four schemes of the
\* HTTP and WebSocket families, a port that is the default of wss, and
\* URLs set_scheme refuses (file:///..., mailto:...).
Origins ==
    { <<"http", Host, 0>>, <<"http", Host, 443>>, <<"https", Host, 0>>,
      <<"ws", Host, 8080>>, <<"wss", Host, 0>>, <<"ftp", Host, 0>>,
      <<"file", None, 0>>, <<"mailto", None, 0>> }

\* What a single caller passes: every origin on the root path, with and
\* without the marker, every query on a longer path, and URLs with a
\* fragment.
WideUrls ==
    { Url(o[1], o[2], o[3], "/", q) :
        o \in Origins, q \in { <<>>, <<"?", "transport", "=", "websocket">> } }
    \cup
    { Url("http", Host, 0, "/socket.io/", q) : q \in Queries }
    \cup
    { WithFragment(Url("https", Host, 0, "/", q), "top") :
        q \in { <<>>, <<"?", "foo", "=", "bar">> } }

\* What concurrent callers pass: the two scenario URLs and one that set_scheme
\* refuses.
UrlA == Url("http", Host, 0, "/socket.io/", <<"?", "foo", "=", "bar">>)
UrlB == Url("wss", Host, 0, "/", <<"?", "transport", "=", "websocket">>)
UrlC == Url("mailto", None, 0, "user@example.com", <<>>)

NarrowUrls == {UrlA, UrlB, UrlC}

\* Url::as_str: the serialization, as tokens.
as_str(u) ==
    <<u.scheme, ":">>
    \o (IF u.host # None THEN <<"//", u.host>> ELSE <<>>)
    \o (IF u.port # 0 THEN <<":", ToString(u.port)>> ELSE <<>>)
    \o <<u.path>> \o u.query
    \o (IF u.fragment # None THEN <<"#", u.fragment>> ELSE <<>>)

\* http::Uri parsed from a serialization: what follows the first "#" is
\* dropped.
RECURSIVE ParseUri(_)
ParseUri(str) ==
    IF str = <<>> \/ Head(str) = "#" THEN <<>>
    ELSE <<Head(str)>> \o ParseUri(Tail(str))

\* A HeaderMap: the values held under each name, in order.
HeaderNames == {"cookie", "authorization"}

EmptyMap == [n \in HeaderNames |-> <<>>]

\* The Option<HeaderMap> passed to new: None, or Some(map).
NoHeaders == [some |-> FALSE, map |-> EmptyMap]
SomeHeaders(m) == [some |-> TRUE, map |-> m]

HeaderInputs ==
    { NoHeaders,
      SomeHeaders(EmptyMap),
      SomeHeaders([EmptyMap EXCEPT !["cookie"] = <<"a=1", "b=2">>]),
      SomeHeaders([EmptyMap EXCEPT !["cookie"] = <<"a=1">>,
                                   !["authorization"] = <<"token">>]) }

\* HeaderMap::extend keeping one value per name.
extend_last_only(target, map) ==
    [n \in HeaderNames |->
        IF map[n] # <<>> THEN <<map[n][Len(map[n])]>> ELSE target[n]]

\* HeaderMap::extend(map): for every name of `map`, the values `target`
\* held under it are replaced by all the values `map` holds under it.
extend(target, map) ==
    [n \in HeaderNames |-> IF map[n] # <<>> THEN map[n] ELSE target[n]]

NoReq == [uri |-> <<>>, headers |-> EmptyMap, given |-> NoHeaders]

\* What emit is passed and poll returns.
Payloads == {"2probe", "4hello"}

\* A call of emit, poll or upgrade with its arguments.
NoMsg == [op |-> None, data |-> None, bin |-> FALSE]
Msg(op, data, bin) == [op |-> op, data |-> data, bin |-> bin]

CallsOf(payloads) ==
    { Msg("emit", d, b) : d \in payloads, b \in BOOLEAN }
    \cup { Msg("poll", None, FALSE), Msg("upgrade", None, FALSE) }

\* What the delegate answers a call with: Ok(()) or Err(e) for emit and
\* upgrade, Ok(bytes) or Err(e) for poll.
NoRes == [op |-> None, kind |-> None, data |-> None]
Res(op, kind, data) == [op |-> op, kind |-> kind, data |-> data]

ResultsOf(op, payloads) ==
    { Res(op, "err", None) } \cup
    IF op = "poll" THEN { Res(op, "ok", d) : d \in payloads }
    ELSE { Res(op, "ok", None) }

\* The exchange with self.inner in one step: the call of the transport that
\* began, the calls of the delegate it made, the answer of the delegate
\* that came in.
NoIo == [call |-> NoMsg, handed |-> <<>>, got |-> NoRes]

\* The value of a Url slot that holds nothing.
NoUrl == Url(None, None, 0, None, <<>>)

\* ------------------------------------------------------------------ state
Tasks == {"t1", "t2", "t3"}

VARIABLES
    callers,    \* the tasks that call into the transport
    adapter,    \* "none", or "live" once new has returned Ok(Self)
    base_url,   \* the Url inside self.base_url (Arc<RwLock<Url>>)
    writer,     \* the task holding the RwLock write guard, or None
    readers,    \* the tasks holding a read guard
    waitq,      \* the tasks queued on the RwLock, oldest first
    inner,      \* self.inner, the AsyncWebsocketGeneralTransport
    pc,         \* where each task is inside its current call
    url,        \* the local `url` of a new or set_base_url call in flight
    arg,        \* that call and its `base_url` argument
    ret,        \* what the step just taken returned to its caller, if it
                \* was the return of a call
    started,    \* new has been called
    connects,   \* number of connect_async_tls_with_config calls made
    cellSrc,    \* the call whose store produced the value in base_url
    lastAcq,    \* the call that acquired the write guard last
    since,      \* per base_url() call in flight: the calls whose value was
                \* in base_url at some time since it began
    req,        \* the request of the new call in flight or just returned
    io          \* the exchange with self.inner made by the step just taken

vars == <<callers, adapter, base_url, writer, readers, waitq, inner, pc, url,
          arg, ret, started, connects, cellSrc, lastAcq, since, req, io>>

lockVars == <<writer, readers, waitq>>
ghostVars == <<cellSrc, lastAcq, since>>

\* self.inner before new has built it; `conn` is the connection whose
\* halves the delegate holds.
NoInner == [live |-> FALSE, upgraded |-> FALSE, conn |-> 0]

\* A call that stores a Url: "new", "set" (set_base_url) or "set_back"
\* (set_base_url passed the Url that base_url() has just returned), and the
\* Url it was passed.
NoSrc == [by |-> None, arg |-> NoUrl]
Src(by, u) == [by |-> by, arg |-> u]

\* A return: the call, "ok" or "err", the Url returned (base_url only), the
\* bytes returned (poll only) and, for base_url, the calls whose value was
\* current while it ran.
NoRet == [op |-> None, kind |-> None, val |-> NoUrl, since |-> {},
          data |-> None]
Ret(op, kind) == [NoRet EXCEPT !.op = op, !.kind = kind]
RetUrl(u, srcs) == [Ret("base_url", "ok") EXCEPT !.val = u, !.since = srcs]
RetOf(res) == [Ret(res.op, res.kind) EXCEPT !.data = res.data]

\* The URLs a caller may pass.
Inputs == IF Cardinality(callers) = 1 THEN WideUrls ELSE NarrowUrls

\* The bytes that go through emit and poll.
Bytes == IF Cardinality(callers) = 1 THEN Payloads ELSE {"2probe"}

Calls == CallsOf(Bytes)

Results(op) == ResultsOf(op, Bytes)

InitWith(cs) ==
    /\ callers = cs
    /\ adapter = "none"
    /\ base_url = NoUrl
    /\ writer = None
    /\ readers = {}
    /\ waitq = <<>>
    /\ inner = NoInner
    /\ pc = [t \in Tasks |-> "idle"]
    /\ url = [t \in Tasks |-> NoUrl]
    /\ arg = [t \in Tasks |-> NoSrc]
    /\ ret = NoRet
    /\ started = FALSE
    /\ connects = 0
    /\ cellSrc = NoSrc
    /\ lastAcq = NoSrc
    /\ since = [t \in Tasks |-> {}]
    /\ req = NoReq
    /\ io = NoIo

\* One task owns the transport.
Init == InitWith({"t1"})

\* The transport is shared by all tasks.
InitShared == InitWith(Tasks)

\* ------------------------------------------------------------ the RwLock
\* tokio::sync::RwLock hands the lock out in the order it was asked for:
\* a request joins the queue and is granted at its head, a write when no
\* guard is out, a read when no write guard is out.
Enqueue(t) == waitq' = Append(waitq, t)

AtHead(t) == waitq # <<>> /\ Head(waitq) = t

\* CanWrite not waiting for the write guard that is out.
CanWriteOverlapping(t) == AtHead(t) /\ readers = {}

CanWrite(t) == AtHead(t) /\ writer = None /\ readers = {}

\* CanRead not waiting for the write guard that is out.
CanReadUnfenced(t) == AtHead(t)

CanRead(t) == AtHead(t) /\ writer = None

\* --------------------------------------------------------------- new
\* Lines 34-36: the marker is appended whatever the query holds, then the
\* scheme is rewritten.
NewUrl(u) == set_scheme(append_pair(u))

NewPanics(u) == ~set_scheme_ok(append_pair(u))

\* Request built for the Url as it was passed in.
RequestOfInput(u, headers) ==
    [uri |-> ParseUri(as_str(u)),
     headers |-> IF headers.some THEN extend(EmptyMap, headers.map)
                 ELSE EmptyMap,
     given |-> headers]

\* Lines 38-42: the request of new(u, _, headers): a builder with the
\* rewritten Url as uri and no header, extended by the headers when there
\* are some.
Request(u, headers) ==
    [uri |-> ParseUri(as_str(NewUrl(u))),
     headers |-> IF headers.some THEN extend(EmptyMap, headers.map)
                 ELSE EmptyMap,
     given |-> headers]

\* Lines 29-49, up to the await of the handshake: rewrite the URL, build
\* the request for it and start the one connection attempt.  The unwrap
\* of line 36 panics when set_scheme refuses.  Every rewritten Url of the
\* inputs is a valid request URI, so req.body(()) of line 45 is Ok.
New(t, u, headers) ==
    /\ t \in callers /\ pc[t] = "idle" /\ ~started
    /\ ret' = NoRet
    /\ started' = TRUE
    /\ IF NewPanics(u)
       THEN /\ pc' = [pc EXCEPT ![t] = "panicked"]
            /\ UNCHANGED <<url, arg, connects, req>>
       ELSE /\ pc' = [pc EXCEPT ![t] = "new_connect"]
            /\ url' = [url EXCEPT ![t] = NewUrl(u)]
            /\ arg' = [arg EXCEPT ![t] = Src("new", u)]
            /\ req' = Request(u, headers)
            /\ connects' = connects + 1
    /\ UNCHANGED <<callers, adapter, base_url, lockVars, inner, ghostVars>>
    /\ io' = NoIo

\* NewConnected running the delegate's upgrade before it returns.
NewConnectedUpgrading(t) ==
    /\ pc[t] = "new_connect"
    /\ adapter' = "live"
    /\ inner' = [live |-> TRUE, upgraded |-> TRUE, conn |-> connects]
    /\ base_url' = url[t]
    /\ cellSrc' = arg[t]
    /\ pc' = [pc EXCEPT ![t] = "idle"]
    /\ ret' = Ret("new", "ok")
    /\ url' = [url EXCEPT ![t] = NoUrl]
    /\ arg' = [arg EXCEPT ![t] = NoSrc]
    /\ UNCHANGED <<callers, lockVars, started, connects, lastAcq, since>>
    /\ UNCHANGED req
    /\ io' = NoIo

\* Lines 49-57: the handshake succeeded; the stream is split, the delegate
\* built from the halves, and the transport returned with `url` in a fresh
\* RwLock.
NewConnected(t) ==
    /\ pc[t] = "new_connect"
    /\ adapter' = "live"
    /\ inner' = [live |-> TRUE, upgraded |-> FALSE, conn |-> connects]
    /\ base_url' = url[t]
    /\ cellSrc' = arg[t]
    /\ pc' = [pc EXCEPT ![t] = "idle"]
    /\ ret' = Ret("new", "ok")
    /\ url' = [url EXCEPT ![t] = NoUrl]
    /\ arg' = [arg EXCEPT ![t] = NoSrc]
    /\ UNCHANGED <<callers, lockVars, started, connects, lastAcq, since>>
    /\ UNCHANGED req
    /\ io' = NoIo

\* NewConnectFailed trying the handshake a second time before giving up.
NewConnectRetried(t) ==
    /\ pc[t] = "new_connect"
    /\ IF connects < 2
       THEN /\ connects' = connects + 1
            /\ UNCHANGED <<pc, ret, url, arg>>
       ELSE /\ pc' = [pc EXCEPT ![t] = "idle"]
            /\ ret' = Ret("new", "err")
            /\ url' = [url EXCEPT ![t] = NoUrl]
            /\ arg' = [arg EXCEPT ![t] = NoSrc]
            /\ UNCHANGED connects
    /\ UNCHANGED <<callers, adapter, base_url, lockVars, inner, started,
                   ghostVars>>
    /\ req' = IF connects < 2 THEN req ELSE NoReq
    /\ io' = NoIo

\* Line 49: the handshake failed and `?` returns the error.
NewConnectFailed(t) ==
    /\ pc[t] = "new_connect"
    /\ pc' = [pc EXCEPT ![t] = "idle"]
    /\ ret' = Ret("new", "err")
    /\ url' = [url EXCEPT ![t] = NoUrl]
    /\ arg' = [arg EXCEPT ![t] = NoSrc]
    /\ UNCHANGED <<callers, adapter, base_url, lockVars, inner, started,
                   connects, ghostVars>>
    /\ req' = NoReq
    /\ io' = NoIo

\* ------------------------------------------------------- set_base_url
\* SetUrl appending the marker whatever the query holds.
SetUrlAppendAlways(u) == set_scheme(append_pair(u))

\* SetUrl leaving the scheme as it came.
SetUrlKeepScheme(u) == IF HasMarker(u) THEN u ELSE append_pair(u)

\* Lines 82-89: the marker is appended unless a pair transport=websocket is
\* already there, then the scheme is rewritten.
SetUrl(u) == set_scheme(IF HasMarker(u) THEN u ELSE append_pair(u))

SetPanics(u) == ~set_scheme_ok(u)

\* Lines 81-90, up to the await of write(): the unwrap of line 89 panics
\* when set_scheme refuses.
SetCall(t, u, by) ==
    /\ t \in callers /\ pc[t] = "idle" /\ adapter = "live"
    /\ ret' = NoRet
    /\ IF SetPanics(u)
       THEN /\ pc' = [pc EXCEPT ![t] = "panicked"]
            /\ UNCHANGED <<url, arg, waitq>>
       ELSE /\ pc' = [pc EXCEPT ![t] = "set_wait"]
            /\ url' = [url EXCEPT ![t] = SetUrl(u)]
            /\ arg' = [arg EXCEPT ![t] = Src(by, u)]
            /\ Enqueue(t)
    /\ UNCHANGED <<callers, adapter, base_url, writer, readers, inner,
                   started, connects, ghostVars>>
    /\ io' = NoIo
    /\ req' = NoReq

\* set_base_url(u) with a Url of the caller's.
SetBaseUrl(t, u) == SetCall(t, u, "set")

\* set_base_url(u) with the Url base_url() has just returned.
SetBaseUrlBack(t) ==
    /\ ret.op = "base_url"
    /\ SetCall(t, ret.val, "set_back")

\* Line 90: write().await returns the write guard.
SetAcquire(t) ==
    /\ pc[t] = "set_wait" /\ CanWrite(t)
    /\ ret' = NoRet
    /\ writer' = t
    /\ waitq' = Tail(waitq)
    /\ lastAcq' = arg[t]
    /\ pc' = [pc EXCEPT ![t] = "set_write"]
    /\ UNCHANGED <<callers, adapter, base_url, readers, inner, url, arg, started, connects, cellSrc, since>>
    /\ io' = NoIo
    /\ req' = NoReq

\* The Url in the cell while `url` is being moved over it: the new value
\* with part of the old one still in place.
Torn(old, new) == [new EXCEPT !.query = old.query]

\* Line 90: the assignment through the guard begins.
SetStoreBegin(t) ==
    /\ pc[t] = "set_write"
    /\ ret' = NoRet
    /\ base_url' = Torn(base_url, url[t])
    /\ pc' = [pc EXCEPT ![t] = "set_mid"]
    /\ UNCHANGED <<callers, adapter, lockVars, inner, url, arg, started,
                   connects, ghostVars>>
    /\ io' = NoIo
    /\ req' = NoReq

\* SetStoreEnd opening a connection to the Url it stored.
SetStoreEndReconnects(t) ==
    /\ pc[t] = "set_mid"
    /\ base_url' = url[t]
    /\ writer' = None
    /\ cellSrc' = arg[t]
    /\ since' = [r \in Tasks |->
                    IF pc[r] \in {"get_wait", "get_read"}
                    THEN since[r] \cup {arg[t]} ELSE since[r]]
    /\ pc' = [pc EXCEPT ![t] = "idle"]
    /\ ret' = Ret("set_base_url", "ok")
    /\ url' = [url EXCEPT ![t] = NoUrl]
    /\ arg' = [arg EXCEPT ![t] = NoSrc]
    /\ connects' = connects + 1
    /\ inner' = [live |-> TRUE, upgraded |-> FALSE, conn |-> connects + 1]
    /\ UNCHANGED <<callers, adapter, readers, waitq, started, lastAcq>>
    /\ io' = NoIo
    /\ req' = NoReq

\* SetStoreEnd returning with the write guard still out.
SetStoreEndKeepsGuard(t) ==
    /\ pc[t] = "set_mid"
    /\ base_url' = url[t]
    /\ writer' = writer
    /\ cellSrc' = arg[t]
    /\ since' = [r \in Tasks |->
                    IF pc[r] \in {"get_wait", "get_read"}
                    THEN since[r] \cup {arg[t]} ELSE since[r]]
    /\ pc' = [pc EXCEPT ![t] = "idle"]
    /\ ret' = Ret("set_base_url", "ok")
    /\ url' = [url EXCEPT ![t] = NoUrl]
    /\ arg' = [arg EXCEPT ![t] = NoSrc]
    /\ UNCHANGED <<callers, adapter, readers, waitq, inner, started,
                   connects, lastAcq>>
    /\ io' = NoIo
    /\ req' = NoReq

\* Lines 90-91: the assignment is complete, the guard is dropped and
\* Ok(()) returned.
SetStoreEnd(t) ==
    /\ pc[t] = "set_mid"
    /\ base_url' = url[t]
    /\ writer' = None
    /\ cellSrc' = arg[t]
    /\ since' = [r \in Tasks |->
                    IF pc[r] \in {"get_wait", "get_read"}
                    THEN since[r] \cup {arg[t]} ELSE since[r]]
    /\ pc' = [pc EXCEPT ![t] = "idle"]
    /\ ret' = Ret("set_base_url", "ok")
    /\ url' = [url EXCEPT ![t] = NoUrl]
    /\ arg' = [arg EXCEPT ![t] = NoSrc]
    /\ UNCHANGED <<callers, adapter, readers, waitq, inner, started,
                   connects, lastAcq>>
    /\ io' = NoIo
    /\ req' = NoReq

\* ----------------------------------------------------------- base_url
\* Line 78, up to the await of read().
BaseUrl(t) ==
    /\ t \in callers /\ pc[t] = "idle" /\ adapter = "live"
    /\ ret' = NoRet
    /\ pc' = [pc EXCEPT ![t] = "get_wait"]
    /\ since' = [since EXCEPT ![t] = {cellSrc}]
    /\ Enqueue(t)
    /\ UNCHANGED <<callers, adapter, base_url, writer, readers, inner, url,
                   arg, started, connects, cellSrc, lastAcq>>
    /\ io' = NoIo
    /\ req' = NoReq

\* Line 78: read().await returns a read guard.
BaseUrlAcquire(t) ==
    /\ pc[t] = "get_wait" /\ CanRead(t)
    /\ ret' = NoRet
    /\ readers' = readers \cup {t}
    /\ waitq' = Tail(waitq)
    /\ pc' = [pc EXCEPT ![t] = "get_read"]
    /\ UNCHANGED <<callers, adapter, base_url, writer, inner, url, arg, started, connects, ghostVars>>
    /\ io' = NoIo
    /\ req' = NoReq

\* Line 78: the Url is cloned through the guard, the guard dropped and
\* Ok(clone) returned.
BaseUrlClone(t) ==
    /\ pc[t] = "get_read"
    /\ ret' = RetUrl(base_url, since[t])
    /\ since' = [since EXCEPT ![t] = {}]
    /\ readers' = readers \ {t}
    /\ pc' = [pc EXCEPT ![t] = "idle"]
    /\ UNCHANGED <<callers, adapter, base_url, writer, waitq, inner, url, arg,
                   started, connects, cellSrc, lastAcq>>
    /\ io' = NoIo
    /\ req' = NoReq

\* ------------------------------------------------ emit, poll, upgrade
\* Lines 62-75: each forwards to self.inner and awaits it.
Forwarded == {"emit", "poll", "upgrade"}

\* Forward handing every message over as text.
ForwardAsText(t, m) ==
    /\ t \in callers /\ pc[t] = "idle" /\ adapter = "live"
    /\ m \in Calls
    /\ ret' = NoRet
    /\ io' = [call |-> m, handed |-> <<[m EXCEPT !.bin = FALSE]>>,
              got |-> NoRes]
    /\ pc' = [pc EXCEPT ![t] = m.op]
    /\ UNCHANGED <<callers, adapter, base_url, lockVars, inner, url, arg,
                   started, connects, ghostVars>>
    /\ req' = NoReq

Forward(t, m) ==
    /\ t \in callers /\ pc[t] = "idle" /\ adapter = "live"
    /\ m \in Calls
    /\ ret' = NoRet
    /\ io' = [call |-> m, handed |-> <<m>>, got |-> NoRes]
    /\ pc' = [pc EXCEPT ![t] = m.op]
    /\ UNCHANGED <<callers, adapter, base_url, lockVars, inner, url, arg,
                   started, connects, ghostVars>>
    /\ req' = NoReq

\* The delegate after one of its calls ended: a successful upgrade leaves
\* it upgraded, everything else leaves it as it was.
InnerAfter(op, kind) ==
    IF op = "upgrade" /\ kind = "ok"
    THEN [inner EXCEPT !.upgraded = TRUE] ELSE inner

\* Returned emptying the Url cell when the delegate answers with an error.
ReturnedDropsUrl(t, res) ==
    /\ pc[t] \in Forwarded
    /\ res \in Results(pc[t])
    /\ inner' = InnerAfter(pc[t], res.kind)
    /\ io' = [call |-> NoMsg, handed |-> <<>>, got |-> res]
    /\ ret' = RetOf(res)
    /\ pc' = [pc EXCEPT ![t] = "idle"]
    /\ base_url' = IF res.kind = "err" THEN NoUrl ELSE base_url
    /\ UNCHANGED <<callers, adapter, lockVars, url, arg, started, connects,
                   ghostVars>>
    /\ req' = NoReq

\* The await of self.inner's emit, poll or upgrade ends; its result is the
\* call's result.
Returned(t, res) ==
    /\ pc[t] \in Forwarded
    /\ res \in Results(pc[t])
    /\ inner' = InnerAfter(pc[t], res.kind)
    /\ io' = [call |-> NoMsg, handed |-> <<>>, got |-> res]
    /\ ret' = RetOf(res)
    /\ pc' = [pc EXCEPT ![t] = "idle"]
    /\ UNCHANGED <<callers, adapter, base_url, lockVars, url, arg, started,
                   connects, ghostVars>>
    /\ req' = NoReq

\* ------------------------------------------------------ specification
Next ==
    \/ \E t \in Tasks : \E u \in Inputs : \E h \in HeaderInputs : New(t, u, h)
    \/ \E t \in Tasks : NewConnected(t)
    \/ \E t \in Tasks : NewConnectFailed(t)
    \/ \E t \in Tasks : \E u \in Inputs : SetBaseUrl(t, u)
    \/ \E t \in Tasks : SetBaseUrlBack(t)
    \/ \E t \in Tasks : SetAcquire(t)
    \/ \E t \in Tasks : SetStoreBegin(t)
    \/ \E t \in Tasks : SetStoreEnd(t)
    \/ \E t \in Tasks : BaseUrl(t)
    \/ \E t \in Tasks : BaseUrlAcquire(t)
    \/ \E t \in Tasks : BaseUrlClone(t)
    \/ \E t \in Tasks : \E m \in Calls : Forward(t, m)
    \/ \E t \in Tasks : \E op \in Forwarded : \E res \in Results(op) :
          Returned(t, res)

Spec == Init /\ [][Next]_vars

\* The steps of tasks that share one transport and pass Urls of their own.
NextShared ==
    \/ \E t \in Tasks : \E u \in Inputs : \E h \in HeaderInputs : New(t, u, h)
    \/ \E t \in Tasks : NewConnected(t)
    \/ \E t \in Tasks : NewConnectFailed(t)
    \/ \E t \in Tasks : \E u \in Inputs : SetBaseUrl(t, u)
    \/ \E t \in Tasks : SetAcquire(t)
    \/ \E t \in Tasks : SetStoreBegin(t)
    \/ \E t \in Tasks : SetStoreEnd(t)
    \/ \E t \in Tasks : BaseUrl(t)
    \/ \E t \in Tasks : BaseUrlAcquire(t)
    \/ \E t \in Tasks : BaseUrlClone(t)
    \/ \E t \in Tasks : \E m \in Calls : Forward(t, m)
    \/ \E t \in Tasks : \E op \in Forwarded : \E res \in Results(op) :
          Returned(t, res)

SpecShared == InitShared /\ [][NextShared]_vars

\* A task past an await of the RwLock runs on: the runtime polls a task
\* whose lock request was granted, and nothing between the grant and the
\* drop of the guard awaits.  Nothing makes a caller call, the handshake
\* end or the delegate answer.
LockSteps(t) ==
    \/ SetAcquire(t) \/ SetStoreBegin(t) \/ SetStoreEnd(t)
    \/ BaseUrlAcquire(t) \/ BaseUrlClone(t)

Fairness == \A t \in Tasks : WF_vars(LockSteps(t))

SpecFair == InitShared /\ [][NextShared]_vars /\ Fairness

\* -------------------------------------------------------------- claims
\* Number of decoded query pairs of u that are transport=websocket.
Markers(u) ==
    Cardinality({ i \in 1..Len(query_pairs(u)) : IsMarker(query_pairs(u)[i]) })

MarkerPair == << <<"transport">>, <<"websocket">> >>

\* wss://example.com/socket.io/?foo=bar&transport=websocket
NormA ==
    Url("wss", Host, 0, "/socket.io/",
        <<"?", "foo", "=", "bar", "&", "transport", "=", "websocket">>)

\* wss://example.com/?transport=websocket&transport=websocket
BootB ==
    Url("wss", Host, 0, "/",
        <<"?", "transport", "=", "websocket", "&",
          "transport", "=", "websocket">>)

\* The Url a storing call leaves in the cell.
Stored(s) == IF s.by = "new" THEN NewUrl(s.arg) ELSE SetUrl(s.arg)

IsSet(s) == s.by \in {"set", "set_back"}

SetInFlight == \E t \in Tasks : pc[t] \in {"set_wait", "set_write", "set_mid"}

\* C1: when new returns Ok, the Url in the cell (the one base_url() returns
\* first) holds exactly one pair transport=websocket, and new passed
\* wss://example.com/?transport=websocket stores that very Url.
C1_NewStoresOneMarker ==
    (ret.op = "new" /\ ret.kind = "ok") =>
        /\ Markers(base_url) = 1
        /\ (cellSrc.arg = UrlB => base_url = UrlB)

C3_SchemeIsWss ==
    /\ adapter = "live" => base_url.scheme = "wss"
    /\ ret.op = "base_url" => ret.val.scheme = "wss"

\* base_url() has returned the Url stored by set_base_url of a ws:// Url.
C3_Witness ==
    /\ ret.op = "base_url"
    /\ cellSrc.by = "set" /\ cellSrc.arg.scheme = "ws"
    /\ ret.val = base_url

\* C4: base_url() that ran with only the value of one set_base_url(U) in the
\* cell returns U with scheme wss, the same path, and the same query pairs in
\* the same order, followed by transport=websocket iff U had no such pair.
C4_SetThenGet ==
    (ret.op = "base_url" /\ Cardinality(ret.since) = 1) =>
        LET s == CHOOSE x \in ret.since : TRUE
            U == s.arg
            ps == query_pairs(U)
            had == \E i \in 1..Len(ps) : ps[i] = MarkerPair
        IN  IsSet(s) =>
              /\ ret.val.scheme = "wss"
              /\ ret.val.host = U.host
              /\ ret.val.path = U.path
              /\ query_pairs(ret.val) =
                    IF had THEN ps ELSE Append(ps, MarkerPair)
              /\ (U = UrlA => ret.val = NormA)

\* base_url() has returned right after set_base_url of
\* http://example.com/socket.io/?foo=bar.
C4_Witness ==
    /\ ret.op = "base_url"
    /\ ret.since = {Src("set", UrlA)}
    /\ ret.val = NormA

\* C5: set_base_url passed the Url base_url() has just returned leaves that
\* very Url in the cell.
C5_Idempotent ==
    (ret.op = "set_base_url" /\ cellSrc.by = "set_back") =>
        base_url = cellSrc.arg

\* set_base_url has returned after being passed back the Url that an
\* earlier set_base_url had to add the marker to.
C5_Witness ==
    /\ ret.op = "set_base_url"
    /\ cellSrc = Src("set_back", NormA)
    /\ base_url = NormA

\* C6: every Url base_url() returns is the whole Url stored by new or by one
\* set_base_url call whose value was in the cell while base_url() ran; with
\* the callers passing A and B it is the bootstrap Url, normalized A or
\* normalized B, never a raw or half-written one.
C6_NoTornRead ==
    ret.op = "base_url" =>
        /\ \E s \in ret.since : ret.val = Stored(s)
        /\ ret.val \in {NormA, UrlB, BootB}

\* base_url() has returned B after waiting behind set_base_url(B): both the
\* value of set_base_url(A) and that of set_base_url(B) were in the cell
\* while it ran.
C6_Witness ==
    /\ ret.op = "base_url"
    /\ ret.since = {Src("set", UrlA), Src("set", UrlB)}
    /\ ret.val = UrlB

\* C7: when no set_base_url is in flight, the cell holds the normalized
\* Url of the call that acquired the write guard last; and base_url() never
\* returns a value that was replaced before it began.
C7_LastWriterWins ==
    /\ (~SetInFlight /\ lastAcq # NoSrc) =>
          /\ cellSrc = lastAcq
          /\ base_url = SetUrl(lastAcq.arg)
    /\ ret.op = "base_url" => \E s \in ret.since : ret.val = Stored(s)

\* Two set_base_url calls with different Urls overlapped: the second one
\* to get the guard has just returned, after waiting for the first.
C7_Witness ==
    /\ ret.op = "set_base_url" /\ ~SetInFlight
    /\ cellSrc = Src("set", UrlB)
    /\ base_url = UrlB
    /\ \E t \in Tasks : pc[t] = "get_wait" /\ Src("set", UrlA) \in since[t]

\* C8: no call aborts the task that made it: a Url that cannot be rewritten
\* to wss makes new and set_base_url return an error.
C8_NoAbort == \A t \in Tasks : pc[t] # "panicked"

\* C9: new makes one connection attempt; when the handshake fails it returns
\* an error and neither a delegate nor a Url cell exists, before or after.
C9_FailedHandshake ==
    /\ adapter = "none" => inner = NoInner /\ base_url = NoUrl
    /\ ret.op = "new" => connects = 1
    /\ (ret.op = "new" /\ ret.kind = "err") => adapter = "none"

\* new has returned the error of a failed handshake.
C9_Witness ==
    /\ ret.op = "new" /\ ret.kind = "err"
    /\ connects = 1 /\ adapter = "none"

C11_UrlCallsReturn ==
    /\ [](\A t \in Tasks :
            pc[t] \in Forwarded => (writer # t /\ t \notin readers))
    /\ \A t \in Tasks :
          (pc[t] \in {"get_wait", "get_read"}) ~> (pc[t] = "idle")
    /\ \A t \in Tasks :
          (pc[t] \in {"set_wait", "set_write", "set_mid"}) ~> (pc[t] = "idle")

\* A base_url() call waits behind a set_base_url() call that holds the write
\* guard while a third task is suspended in poll.
C11_Witness ==
    \E t1, t2, t3 \in Tasks :
        /\ pc[t1] = "poll" /\ pc[t2] = "set_mid" /\ pc[t3] = "get_wait"
        /\ writer = t2

\* C12: every emit, poll and upgrade call hands the delegate one message,
\* the call's own payload and binary flag, nothing is handed over outside
\* a call, the call returns what the delegate answered, success or error,
\* without a second attempt, and a caller of the live transport may make
\* any of the calls whatever was called before.
C12_PassThrough ==
    /\ io.call # NoMsg => io.handed = <<io.call>>
    /\ io.call = NoMsg => io.handed = <<>>
    /\ io.got # NoRes =>
          /\ ret.op = io.got.op /\ ret.kind = io.got.kind
          /\ ret.data = io.got.data
          /\ io.handed = <<>>
    /\ ret.op \in Forwarded => io.got.op = ret.op
    /\ \A t \in callers :
          (adapter = "live" /\ pc[t] = "idle") =>
              \A m \in Calls : ENABLED Forward(t, m)

C12_Witness ==
    /\ io.call = Msg("emit", "4hello", TRUE)
    /\ io.handed = <<Msg("emit", "4hello", TRUE)>>
    /\ \E t \in Tasks : pc[t] = "emit"

\* C13: no step of a set_base_url call touches the delegate, opens a
\* connection, builds a request or hands the delegate a message, and the
\* delegate made by new stays the transport's delegate for good.
SetPcs == {"set_wait", "set_write", "set_mid"}

SetStep ==
    \E t \in Tasks :
        /\ pc'[t] # pc[t]
        /\ \/ pc[t] \in SetPcs \/ pc'[t] \in SetPcs
           \/ (adapter = "live" /\ pc'[t] = "panicked")

C13_SetIsBookkeeping ==
    [][/\ SetStep =>
            /\ inner' = inner /\ connects' = connects
            /\ adapter' = adapter
            /\ io'.handed = <<>> /\ req' = NoReq
       /\ inner.live => (inner'.live /\ inner'.conn = inner.conn)]_vars

C13_Witness ==
    /\ ret.op = "set_base_url" /\ ret.kind = "ok"
    /\ inner.live /\ inner.conn = 1 /\ connects = 1
    /\ base_url = NormA

\* C14: the Url in the cell when new(u, ..) has returned is the Url that
\* set_base_url(u) stores.
C14_NewEqualsSet ==
    (ret.op = "new" /\ ret.kind = "ok") => base_url = SetUrl(cellSrc.arg)

\* C15: the Url in the cell changes only in the steps of a set_base_url call
\* that holds the write guard; the steps of emit, poll, upgrade and base_url
\* leave it as it is, whatever they return, and base_url returns the Url
\* that is in the cell.
OtherPcs == Forwarded \cup {"get_wait", "get_read"}

C15_OnlySetWrites ==
    /\ [][/\ (adapter = "live" /\ base_url' # base_url) =>
                \E t \in Tasks :
                    /\ pc[t] \in {"set_write", "set_mid"}
                    /\ pc'[t] # pc[t] /\ writer = t
          /\ (\E t \in Tasks :
                 /\ pc'[t] # pc[t]
                 /\ pc[t] \in OtherPcs \/ pc'[t] \in OtherPcs)
               => base_url' = base_url]_vars
    /\ [](ret.op = "base_url" => ret.val = base_url)

C15_Witness ==
    /\ ret.op = "upgrade" /\ ret.kind = "err"
    /\ cellSrc = Src("set", UrlA) /\ base_url = NormA
    /\ \E t \in Tasks : pc[t] = "get_read"

\* C16: the request of new carries, under every name, the values the
\* caller's map has under it, all of them and in their order, and no
\* header at all when the caller passed no map.
C16_HeadersCarried ==
    \A t \in Tasks :
        pc[t] = "new_connect" =>
            \A n \in HeaderNames :
                req.headers[n] =
                    (IF req.given.some THEN req.given.map[n] ELSE <<>>)

C16_Witness ==
    /\ \E t \in Tasks : pc[t] = "new_connect"
    /\ req.given.some
    /\ Len(req.given.map["cookie"]) = 2
    /\ req.headers["cookie"] = req.given.map["cookie"]

\* C17 as stated: the Url in the cell when new has returned, written out, is
\* the uri of the request of the handshake.
C17_StoredIsRequestUri ==
    (ret.op = "new" /\ ret.kind = "ok") => req.uri = as_str(base_url)

\* C17: the uri of the request of the handshake is the Url in the cell when
\* new has returned, written out up to its fragment, and it is never the Url
\* that was passed in.
NoFragment(u) == [u EXCEPT !.fragment = None]

C17_RequestUriIsStoredSansFragment ==
    /\ (ret.op = "new" /\ ret.kind = "ok") =>
          /\ req.uri = as_str(NoFragment(base_url))
          /\ req.uri # as_str(NoFragment(cellSrc.arg))
    /\ \A t \in Tasks :
          pc[t] = "new_connect" =>
              /\ req.uri = as_str(NoFragment(url[t]))
              /\ req.uri # as_str(NoFragment(arg[t].arg))

C17_Witness ==
    /\ ret.op = "new" /\ ret.kind = "ok"
    /\ base_url.fragment = "top"
    /\ req.uri # as_str(base_url)

====
